---- MODULE Spec2Model ----
(***************************************************************************)
(* preferred-ip (src/lib.rs): the preferred outgoing address of a network  *)
(* interface, found by connecting a device-bound datagram socket to a      *)
(* representative destination and reading the socket's local address back, *)
(* then validating the scope of that address.                              *)
(*                                                                         *)
(* A caller is a thread inside one of the six public functions.  A step of *)
(* a caller is one OS primitive of the probe (get_ipv6 / get_ipv4)         *)
(* together with all the pure code that follows it up to the next          *)
(* primitive.  The OS is the environment: every primitive may answer with  *)
(* any outcome its Rust signature allows.                                  *)
(***************************************************************************)
EXTENDS Integers, Sequences, FiniteSets, TLC

VARIABLES
    pc,      \* caller -> position in the call
    op,      \* caller -> public function being executed ("" when none)
    iface,   \* caller -> the `interface` argument
    sock,    \* caller -> fd held by the local `socket` / `udp` (0: none)
    dest,    \* caller -> the local `sock_addr`
    got,     \* caller -> results of the probes completed so far (a, b, c)
    result,  \* caller -> value returned by the public function
    fdtab,   \* OS: open datagram sockets, fd -> socket state
    log,     \* OS: per caller, the primitives it invoked and what the OS answered
    host     \* OS: the addresses a route lookup may select as source

vars == <<pc, op, iface, sock, dest, got, result, fdtab, log, host>>

----------------------------------------------------------------------------
(* std::net::IpAddr, Ipv4Addr (four octets), Ipv6Addr (eight segments) *)

V4(a, b, c, d) == [v |-> 4, o |-> <<a, b, c, d>>]

V6(s) == [v |-> 6, o |-> s]

NoAddr == [v |-> 0, o |-> <<>>]

RECURSIVE BitAnd(_, _, _)
BitAnd(x, y, n) ==
    IF n = 0 THEN 0
    ELSE 2 * BitAnd(x \div 2, y \div 2, n - 1) + (IF x % 2 = 1 /\ y % 2 = 1 THEN 1 ELSE 0)

And16(x, y) == BitAnd(x, y, 16)

(* Ipv6Addr predicates (feature `ip`).  is_unicast_global is the std         *)
(* definition by exclusion: not multicast, loopback, link-local, unique     *)
(* local, unspecified or documentation.                                     *)
Ipv6_is_unicast_link_local(ip) == And16(ip.o[1], 65472) = 65152

Ipv6_is_unique_local(ip) == And16(ip.o[1], 65024) = 64512

Ipv6_is_multicast(ip) == And16(ip.o[1], 65280) = 65280

Ipv6_is_loopback(ip) == ip.o = <<0, 0, 0, 0, 0, 0, 0, 1>>

Ipv6_is_unspecified(ip) == ip.o = <<0, 0, 0, 0, 0, 0, 0, 0>>

Ipv6_is_documentation(ip) == ip.o[1] = 8193 /\ ip.o[2] = 3512

Ipv6_is_unicast_global(ip) ==
    /\ ~Ipv6_is_multicast(ip)
    /\ ~Ipv6_is_loopback(ip)
    /\ ~Ipv6_is_unicast_link_local(ip)
    /\ ~Ipv6_is_unique_local(ip)
    /\ ~Ipv6_is_unspecified(ip)
    /\ ~Ipv6_is_documentation(ip)

(* Ipv4Addr predicates.  is_global follows the IANA special-purpose         *)
(* registry; multicast addresses are not excluded by it.                    *)
Ipv4_is_link_local(ip) == ip.o[1] = 169 /\ ip.o[2] = 254

Ipv4_is_private_wide(ip) ==
    \/ ip.o[1] = 10
    \/ ip.o[1] = 172 /\ ip.o[2] >= 16 /\ ip.o[2] <= 32
    \/ ip.o[1] = 192 /\ ip.o[2] = 168

Ipv4_is_private(ip) ==
    \/ ip.o[1] = 10
    \/ ip.o[1] = 172 /\ ip.o[2] >= 16 /\ ip.o[2] <= 31
    \/ ip.o[1] = 192 /\ ip.o[2] = 168

Ipv4_is_loopback(ip) == ip.o[1] = 127

Ipv4_is_shared(ip) == ip.o[1] = 100 /\ BitAnd(ip.o[2], 192, 8) = 64

Ipv4_is_documentation(ip) ==
    \/ ip.o[1] = 192 /\ ip.o[2] = 0 /\ ip.o[3] = 2
    \/ ip.o[1] = 198 /\ ip.o[2] = 51 /\ ip.o[3] = 100
    \/ ip.o[1] = 203 /\ ip.o[2] = 0 /\ ip.o[3] = 113

Ipv4_is_benchmarking(ip) == ip.o[1] = 198 /\ BitAnd(ip.o[2], 254, 8) = 18

Ipv4_is_broadcast(ip) == ip.o = <<255, 255, 255, 255>>

Ipv4_is_reserved(ip) == BitAnd(ip.o[1], 240, 8) = 240 /\ ~Ipv4_is_broadcast(ip)

Ipv4_is_global(ip) ==
    ~ \/ ip.o[1] = 0
      \/ Ipv4_is_private(ip)
      \/ Ipv4_is_shared(ip)
      \/ Ipv4_is_loopback(ip)
      \/ Ipv4_is_link_local(ip)
      \/ (ip.o[1] = 192 /\ ip.o[2] = 0 /\ ip.o[3] = 0 /\ ip.o[4] # 9 /\ ip.o[4] # 10)
      \/ Ipv4_is_documentation(ip)
      \/ Ipv4_is_benchmarking(ip)
      \/ Ipv4_is_reserved(ip)
      \/ Ipv4_is_broadcast(ip)

----------------------------------------------------------------------------
(* enum Error and Result<T> *)

Res(kind, want, addrs, err) == [kind |-> kind, want |-> want, addrs |-> addrs, err |-> err]

NoResult == Res("none", "", <<>>, "")

Ok(ip) == Res("Ok", "", <<ip>>, "")

IoError(e) == Res("IoError", "", <<>>, e)

WrongIpVer(want, ip) == Res("WrongIpVer", want, <<ip>>, "")

NoLinkLocal(ip) == Res("NoLinkLocal", "", <<ip>>, "")

NoUla(ip) == Res("NoUla", "", <<ip>>, "")

NoGua(ip) == Res("NoGua", "", <<ip>>, "")

NoV4LL(ip) == Res("NoV4LL", "", <<ip>>, "")

NoPrivate_cba(a, b, c) == Res("NoPrivate", "", <<c, b, a>>, "")

NoPrivate(a, b, c) == Res("NoPrivate", "", <<a, b, c>>, "")

NoGlobal(ip) == Res("NoGlobal", "", <<ip>>, "")

(* Option::unwrap on None: the call does not return a value *)
Panicked == Res("panic", "", <<>>, "")

FromIoError_lost(e) == IoError("")

(* impl From<std::io::Error> for Error, applied by `?` *)
FromIoError(e) == IoError(e)

----------------------------------------------------------------------------
(* The six public functions and the probes they issue *)

Callers == {"c1", "c2"}

Ops ==
    {"get_ipv6_unicast_link_local", "get_ipv6_unique_local", "get_ipv6_unicast_global",
     "get_ipv4_link_local", "get_ipv4_private", "get_ipv4_global"}

V6Ops == {"get_ipv6_unicast_link_local", "get_ipv6_unique_local", "get_ipv6_unicast_global"}

(* The `interface` arguments tried: one device the OS knows, one it does not *)
KnownIfaces == {"eth0"}

Ifaces == {"eth0", "nodev0"}

NetworksOf_cba(o) ==
    CASE o = "get_ipv6_unicast_link_local" -> <<"fe80::">>
      [] o = "get_ipv6_unique_local" -> <<"fc00::">>
      [] o = "get_ipv6_unicast_global" -> <<"2000::">>
      [] o = "get_ipv4_link_local" -> <<"169.254.0.0">>
      [] o = "get_ipv4_private" -> <<"192.168.0.0", "172.16.0.0", "10.0.0.0">>
      [] o = "get_ipv4_global" -> <<"0.0.0.0">>

(* The `network` literal of each get_ipv6 / get_ipv4 call, in program order *)
NetworksOf(o) ==
    CASE o = "get_ipv6_unicast_link_local" -> <<"fe80::">>
      [] o = "get_ipv6_unique_local" -> <<"fc00::">>
      [] o = "get_ipv6_unicast_global" -> <<"2000::">>
      [] o = "get_ipv4_link_local" -> <<"169.254.0.0">>
      [] o = "get_ipv4_private" -> <<"10.0.0.0", "172.16.0.0", "192.168.0.0">>
      [] o = "get_ipv4_global" -> <<"0.0.0.0">>

(* Domain::IPV6 in get_ipv6, Domain::IPV4 in get_ipv4 *)
DomainOf(o) == IF o \in V6Ops THEN 6 ELSE 4

(* (network, 0).to_socket_addrs(): the literal parsed into its address *)
ParseLiteral(network) ==
    CASE network = "fe80::" -> V6(<<65152, 0, 0, 0, 0, 0, 0, 0>>)
      [] network = "fc00::" -> V6(<<64512, 0, 0, 0, 0, 0, 0, 0>>)
      [] network = "2000::" -> V6(<<8192, 0, 0, 0, 0, 0, 0, 0>>)
      [] network = "169.254.0.0" -> V4(169, 254, 0, 0)
      [] network = "10.0.0.0" -> V4(10, 0, 0, 0)
      [] network = "172.16.0.0" -> V4(172, 16, 0, 0)
      [] network = "192.168.0.0" -> V4(192, 168, 0, 0)
      [] network = "0.0.0.0" -> V4(0, 0, 0, 0)

MatchV6_any(ip) == Ok(ip)

(* get_ipv6: match ip { V4(_) => Err(WrongIpVer("IPv6", ip)), V6(ipv6) => Ok(ipv6) } *)
MatchV6(ip) == IF ip.v = 4 THEN WrongIpVer("IPv6", ip) ELSE Ok(ip)

(* get_ipv4: match ip { V4(ipv4) => Ok(ipv4), V6(_) => Err(WrongIpVer("IPv4", ip)) } *)
MatchV4(ip) == IF ip.v = 4 THEN Ok(ip) ELSE WrongIpVer("IPv4", ip)

MatchFamily(o, ip) == IF o \in V6Ops THEN MatchV6(ip) ELSE MatchV4(ip)

PrivateChoice_abc(a, b, c) ==
    IF Ipv4_is_private(a) THEN Ok(a)
    ELSE IF Ipv4_is_private(b) THEN Ok(b)
    ELSE IF Ipv4_is_private(c) THEN Ok(c)
    ELSE NoPrivate(a, b, c)

(* get_ipv4_private: the if / else-if chain over c, b, a *)
PrivateChoice(a, b, c) ==
    IF Ipv4_is_private(c) THEN Ok(c)
    ELSE IF Ipv4_is_private(b) THEN Ok(b)
    ELSE IF Ipv4_is_private(a) THEN Ok(a)
    ELSE NoPrivate(a, b, c)

(* The validation each public function applies once all its probes returned Ok *)
Validate(o, g) ==
    CASE o = "get_ipv6_unicast_link_local" ->
            IF Ipv6_is_unicast_link_local(g[1]) THEN Ok(g[1]) ELSE NoLinkLocal(g[1])
      [] o = "get_ipv6_unique_local" ->
            IF Ipv6_is_unique_local(g[1]) THEN Ok(g[1]) ELSE NoUla(g[1])
      [] o = "get_ipv6_unicast_global" ->
            IF Ipv6_is_unicast_global(g[1]) THEN Ok(g[1]) ELSE NoGua(g[1])
      [] o = "get_ipv4_link_local" ->
            IF Ipv4_is_link_local(g[1]) THEN Ok(g[1]) ELSE NoV4LL(g[1])
      [] o = "get_ipv4_private" -> PrivateChoice(g[1], g[2], g[3])
      [] o = "get_ipv4_global" ->
            IF Ipv4_is_global(g[1]) THEN Ok(g[1]) ELSE NoGlobal(g[1])

(* The network of the probe a caller is in: one probe per completed result *)
CurNet(t) == NetworksOf(op[t])[Len(got[t]) + 1]

StepAfter_swapped(prim) ==
    CASE prim = "socket" -> "resolve"
      [] prim = "resolve" -> "connect"
      [] prim = "connect" -> "bind"
      [] prim = "bind" -> "local_addr"

(* Statement order inside get_ipv6 / get_ipv4 *)
StepAfter(prim) ==
    CASE prim = "socket" -> "resolve"
      [] prim = "resolve" -> "bind"
      [] prim = "bind" -> "connect"
      [] prim = "connect" -> "local_addr"

----------------------------------------------------------------------------
(* The OS side of the four primitives *)

SocketErrors == {"EMFILE"}

ResolveErrors == {"EINVAL"}

BindErrors(i) == IF i \in KnownIfaces THEN {"EPERM"} ELSE {"ENODEV"}

BindMaySucceed(i) == i \in KnownIfaces

ConnectErrors == {"ENETUNREACH"}

LocalAddrErrors == {"ENOBUFS"}

(* socket(2) returns the lowest unused descriptor *)
LowestFree(tab) == CHOOSE n \in 1..(Cardinality(DOMAIN tab) + 1) :
    /\ n \notin DOMAIN tab
    /\ \A m \in 1..(n - 1) : m \in DOMAIN tab

NewSocket(tab, fd, fam) ==
    [f \in DOMAIN tab \cup {fd} |->
        IF f = fd THEN [fam |-> fam, dev |-> "", peer |-> NoAddr, local |-> NoAddr]
        ELSE tab[f]]

Leak(tab, fd) == tab

(* Drop of `socket` / `udp` at the end of get_ipv6 / get_ipv4: close(fd) *)
CloseFd(tab, fd) == [f \in DOMAIN tab \ {fd} |-> tab[f]]

LocalAddrQuery_shared(tab, fd) ==
    LET first == CHOOSE f \in DOMAIN tab : \A g \in DOMAIN tab : f <= g
    IN  IF tab[first].local # NoAddr THEN tab[first].local ELSE tab[fd].local

(* udp.local_addr(): getsockname on the caller's own descriptor *)
LocalAddrQuery(tab, fd) == tab[fd].local

Entry(prim, net, err, addr, dev) ==
    [prim |-> prim, net |-> net, err |-> err, addr |-> addr, dev |-> dev]

Logged(t, e) == log' = [log EXCEPT ![t] = Append(@, e)]

----------------------------------------------------------------------------
(* Addresses the OS may report as a socket's local address.  The kernel is  *)
(* not trusted to answer in the socket's family or in the probed range:     *)
(* the code checks both.                                                    *)

HostV4 ==
    {V4(10, 1, 2, 3), V4(11, 0, 0, 1), V4(172, 15, 255, 255), V4(172, 16, 5, 4),
     V4(172, 31, 255, 254), V4(172, 32, 0, 1), V4(192, 168, 1, 7), V4(192, 169, 0, 1),
     V4(169, 254, 9, 9), V4(169, 253, 0, 1), V4(8, 8, 8, 8), V4(127, 0, 0, 1),
     V4(100, 64, 0, 1), V4(0, 0, 0, 0), V4(192, 0, 2, 1), V4(198, 18, 0, 1),
     V4(240, 0, 0, 1), V4(255, 255, 255, 255), V4(192, 0, 0, 9), V4(192, 0, 0, 1),
     V4(224, 0, 0, 1)}

HostV6 ==
    {V6(<<65152, 0, 0, 0, 0, 0, 0, 1>>), V6(<<65215, 65535, 0, 0, 0, 0, 0, 1>>),
     V6(<<65216, 0, 0, 0, 0, 0, 0, 1>>), V6(<<64512, 0, 0, 0, 0, 0, 0, 1>>),
     V6(<<64786, 13398, 0, 0, 0, 0, 0, 1>>), V6(<<65024, 0, 0, 0, 0, 0, 0, 1>>),
     V6(<<8193, 3512, 0, 0, 0, 0, 0, 1>>), V6(<<8193, 18528, 0, 0, 0, 0, 0, 34952>>),
     V6(<<0, 0, 0, 0, 0, 0, 0, 1>>), V6(<<0, 0, 0, 0, 0, 0, 0, 0>>),
     V6(<<65282, 0, 0, 0, 0, 0, 0, 1>>)}

HostRich == HostV4 \cup HostV6

HostSmall ==
    {V4(192, 168, 1, 7), V4(8, 8, 8, 8), V6(<<65152, 0, 0, 0, 0, 0, 0, 1>>)}

----------------------------------------------------------------------------
(* Position of a caller *)

InProbe == {"socket", "resolve", "bind", "connect", "local_addr"}

Init ==
    /\ pc = [t \in Callers |-> IF t = "c1" THEN "idle" ELSE "off"]
    /\ op = [t \in Callers |-> ""]
    /\ iface = [t \in Callers |-> ""]
    /\ sock = [t \in Callers |-> 0]
    /\ dest = [t \in Callers |-> NoAddr]
    /\ got = [t \in Callers |-> <<>>]
    /\ result = [t \in Callers |-> NoResult]
    /\ fdtab = <<>>
    /\ log = [t \in Callers |-> <<>>]
    /\ host = HostRich

(* Two threads calling into the library at once *)
InitConc ==
    /\ pc = [t \in Callers |-> "idle"]
    /\ op = [t \in Callers |-> ""]
    /\ iface = [t \in Callers |-> ""]
    /\ sock = [t \in Callers |-> 0]
    /\ dest = [t \in Callers |-> NoAddr]
    /\ got = [t \in Callers |-> <<>>]
    /\ result = [t \in Callers |-> NoResult]
    /\ fdtab = <<>>
    /\ log = [t \in Callers |-> <<>>]
    /\ host = HostSmall

(* A thread enters one of the public functions *)
Call(t) ==
    /\ pc[t] = "idle"
    /\ \E o \in Ops, i \in Ifaces :
        /\ op' = [op EXCEPT ![t] = o]
        /\ iface' = [iface EXCEPT ![t] = i]
    /\ pc' = [pc EXCEPT ![t] = "socket"]
    /\ UNCHANGED <<sock, dest, got, result, fdtab, log, host>>

(* get_ipv6 / get_ipv4 returns r: its locals are dropped, and the public  *)
(* function either propagates the error (`?`), issues its next probe, or  *)
(* validates and returns.                                                 *)
ProbeReturns(t, r) ==
    /\ fdtab' = CloseFd(fdtab, sock[t])
    /\ sock' = [sock EXCEPT ![t] = 0]
    /\ dest' = [dest EXCEPT ![t] = NoAddr]
    /\ IF r.kind = "Ok"
       THEN LET g == Append(got[t], r.addrs[1]) IN
            /\ got' = [got EXCEPT ![t] = g]
            /\ IF Len(g) < Len(NetworksOf(op[t]))
               THEN /\ pc' = [pc EXCEPT ![t] = "socket"]
                    /\ UNCHANGED result
               ELSE /\ pc' = [pc EXCEPT ![t] = "done"]
                    /\ result' = [result EXCEPT ![t] = Validate(op[t], g)]
       ELSE /\ pc' = [pc EXCEPT ![t] = "done"]
            /\ result' = [result EXCEPT ![t] = r]
            /\ UNCHANGED got
    /\ UNCHANGED <<op, iface, host>>

(* Socket::new(domain, Type::DGRAM, None)? *)
SocketNew(t) ==
    /\ pc[t] = "socket"
    /\ \/ LET fd == LowestFree(fdtab) IN
          /\ fdtab' = NewSocket(fdtab, fd, DomainOf(op[t]))
          /\ sock' = [sock EXCEPT ![t] = fd]
          /\ pc' = [pc EXCEPT ![t] = StepAfter("socket")]
          /\ Logged(t, Entry("socket", CurNet(t), "", NoAddr, ""))
          /\ UNCHANGED <<op, iface, dest, got, result, host>>
       \/ \E e \in SocketErrors :
          /\ ProbeReturns(t, FromIoError(e))
          /\ Logged(t, Entry("socket", CurNet(t), e, NoAddr, ""))

(* (network, 0).to_socket_addrs()?.next().unwrap() *)
Resolve(t) ==
    /\ pc[t] = "resolve"
    /\ \/ /\ dest' = [dest EXCEPT ![t] = ParseLiteral(CurNet(t))]
          /\ pc' = [pc EXCEPT ![t] = StepAfter("resolve")]
          /\ Logged(t, Entry("resolve", CurNet(t), "", NoAddr, fdtab[sock[t]].dev))
          /\ UNCHANGED <<op, iface, sock, got, result, fdtab, host>>
       \/ \E e \in ResolveErrors :
          /\ ProbeReturns(t, FromIoError(e))
          /\ Logged(t, Entry("resolve", CurNet(t), e, NoAddr, fdtab[sock[t]].dev))
       \/ \* Ok with no address: unwrap panics, unwinding drops `socket`
          /\ ProbeReturns(t, Panicked)
          /\ Logged(t, Entry("resolve", CurNet(t), "EMPTY", NoAddr, fdtab[sock[t]].dev))

(* socket.bind_device(Some(interface.as_bytes()))? *)
BindDevice(t) ==
    /\ pc[t] = "bind"
    /\ \/ /\ BindMaySucceed(iface[t])
          /\ fdtab' = [fdtab EXCEPT ![sock[t]].dev = iface[t]]
          /\ pc' = [pc EXCEPT ![t] = StepAfter("bind")]
          /\ Logged(t, Entry("bind", CurNet(t), "", NoAddr, iface[t]))
          /\ UNCHANGED <<op, iface, sock, dest, got, result, host>>
       \/ \E e \in BindErrors(iface[t]) :
          /\ ProbeReturns(t, FromIoError(e))
          /\ Logged(t, Entry("bind", CurNet(t), e, NoAddr, fdtab[sock[t]].dev))

(* socket.connect(&sock_addr.into())?: the route lookup fixes the local address *)
Connect(t) ==
    /\ pc[t] = "connect"
    /\ \/ \E a \in host :
          /\ fdtab[sock[t]].fam = dest[t].v
          /\ fdtab' = [fdtab EXCEPT ![sock[t]].peer = dest[t], ![sock[t]].local = a]
          /\ pc' = [pc EXCEPT ![t] = StepAfter("connect")]
          /\ Logged(t, Entry("connect", CurNet(t), "", a, fdtab[sock[t]].dev))
          /\ UNCHANGED <<op, iface, sock, dest, got, result, host>>
       \/ \E e \in ConnectErrors :
          /\ ProbeReturns(t, FromIoError(e))
          /\ Logged(t, Entry("connect", CurNet(t), e, NoAddr, fdtab[sock[t]].dev))

(* udp.local_addr()?.ip() and the match on the address family *)
LocalAddr(t) ==
    /\ pc[t] = "local_addr"
    /\ \/ /\ ProbeReturns(t, MatchFamily(op[t], LocalAddrQuery(fdtab, sock[t])))
          /\ Logged(t, Entry("local_addr", CurNet(t), "", NoAddr, fdtab[sock[t]].dev))
       \/ \E e \in LocalAddrErrors :
          /\ ProbeReturns(t, FromIoError(e))
          /\ Logged(t, Entry("local_addr", CurNet(t), e, NoAddr, fdtab[sock[t]].dev))

(* The caller consumes the returned value; nothing of the call is kept *)
Return(t) ==
    /\ pc[t] = "done"
    /\ pc' = [pc EXCEPT ![t] = "idle"]
    /\ op' = [op EXCEPT ![t] = ""]
    /\ iface' = [iface EXCEPT ![t] = ""]
    /\ got' = [got EXCEPT ![t] = <<>>]
    /\ result' = [result EXCEPT ![t] = NoResult]
    /\ log' = [log EXCEPT ![t] = <<>>]
    /\ UNCHANGED <<sock, dest, fdtab, host>>

Next ==
    \E t \in Callers :
        \/ Call(t)
        \/ SocketNew(t)
        \/ Resolve(t)
        \/ BindDevice(t)
        \/ Connect(t)
        \/ LocalAddr(t)
        \/ Return(t)

Spec == Init /\ [][Next]_vars

SpecConc == InitConc /\ [][Next]_vars

----------------------------------------------------------------------------
(* What the claims are stated with: the scopes as address ranges, the       *)
(* variants and destinations as the specification tabulates them, and the   *)
(* OS answers of a call as the log records them.                            *)

Top24(ip) == ip.o[1] * 65536 + ip.o[2] * 256 + ip.o[3]

InBlock4(ip, base, len) ==
    /\ ip.v = 4
    /\ Top24(ip) \div (2 ^ (24 - len)) = Top24(base) \div (2 ^ (24 - len))

Rfc1918(ip) ==
    \/ InBlock4(ip, V4(10, 0, 0, 0), 8)
    \/ InBlock4(ip, V4(172, 16, 0, 0), 12)
    \/ InBlock4(ip, V4(192, 168, 0, 0), 16)

LinkLocal4(ip) == InBlock4(ip, V4(169, 254, 0, 0), 16)

Global4(ip) ==
    /\ ip.v = 4
    /\ ~Rfc1918(ip)
    /\ ~LinkLocal4(ip)
    /\ ~InBlock4(ip, V4(0, 0, 0, 0), 8)
    /\ ~InBlock4(ip, V4(100, 64, 0, 0), 10)
    /\ ~InBlock4(ip, V4(127, 0, 0, 0), 8)
    /\ ~(InBlock4(ip, V4(192, 0, 0, 0), 24) /\ ip.o[4] \notin {9, 10})
    /\ ~InBlock4(ip, V4(192, 0, 2, 0), 24)
    /\ ~InBlock4(ip, V4(198, 18, 0, 0), 15)
    /\ ~InBlock4(ip, V4(198, 51, 100, 0), 24)
    /\ ~InBlock4(ip, V4(203, 0, 113, 0), 24)
    /\ ~InBlock4(ip, V4(240, 0, 0, 0), 4)

LinkLocal6(ip) == ip.v = 6 /\ ip.o[1] \in 65152..65215

Ula6(ip) == ip.v = 6 /\ ip.o[1] \in 64512..65023

Gua6(ip) ==
    /\ ip.v = 6
    /\ ~LinkLocal6(ip)
    /\ ~Ula6(ip)
    /\ ip.o[1] < 65280
    /\ \E i \in 1..7 : ip.o[i] # 0
    /\ ~(ip.o[1] = 8193 /\ ip.o[2] = 3512)

InScope(o, ip) ==
    CASE o = "get_ipv6_unicast_link_local" -> LinkLocal6(ip)
      [] o = "get_ipv6_unique_local" -> Ula6(ip)
      [] o = "get_ipv6_unicast_global" -> Gua6(ip)
      [] o = "get_ipv4_link_local" -> LinkLocal4(ip)
      [] o = "get_ipv4_private" -> Rfc1918(ip)
      [] o = "get_ipv4_global" -> Global4(ip)

ScopeVariant(o) ==
    CASE o = "get_ipv6_unicast_link_local" -> "NoLinkLocal"
      [] o = "get_ipv6_unique_local" -> "NoUla"
      [] o = "get_ipv6_unicast_global" -> "NoGua"
      [] o = "get_ipv4_link_local" -> "NoV4LL"
      [] o = "get_ipv4_private" -> "NoPrivate"
      [] o = "get_ipv4_global" -> "NoGlobal"

ScopeVariants == {"NoLinkLocal", "NoUla", "NoGua", "NoV4LL", "NoPrivate", "NoGlobal"}

Destinations(o) ==
    CASE o = "get_ipv6_unicast_link_local" -> <<"fe80::">>
      [] o = "get_ipv6_unique_local" -> <<"fc00::">>
      [] o = "get_ipv6_unicast_global" -> <<"2000::">>
      [] o = "get_ipv4_link_local" -> <<"169.254.0.0">>
      [] o = "get_ipv4_private" -> <<"10.0.0.0", "172.16.0.0", "192.168.0.0">>
      [] o = "get_ipv4_global" -> <<"0.0.0.0">>

FamilyWanted(o) ==
    IF o \in {"get_ipv4_link_local", "get_ipv4_private", "get_ipv4_global"} THEN 4 ELSE 6

FamilyLabel(o) == IF FamilyWanted(o) = 4 THEN "IPv4" ELSE "IPv6"

Steps == <<"socket", "resolve", "bind", "connect", "local_addr">>

Finished(t) == pc[t] = "done"

Last(s) == s[Len(s)]

(* The entries of one probe of a call *)
ProbeLog(t, net) == SelectSeq(log[t], LAMBDA e : e.net = net)

(* The probe toward net ran all five primitives without an OS error *)
ProbeCompleted(t, net) ==
    /\ Len(ProbeLog(t, net)) = 5
    /\ \A i \in 1..5 : ProbeLog(t, net)[i].err = ""

(* The local address the route lookup fixed for the probe toward net *)
RoutedTo(t, net) == ProbeLog(t, net)[4].addr

(* Every probe of the call succeeded with an address of the wanted family *)
AllProbesSucceeded(t) ==
    \A i \in 1..Len(Destinations(op[t])) :
        /\ ProbeCompleted(t, Destinations(op[t])[i])
        /\ RoutedTo(t, Destinations(op[t])[i]).v = FamilyWanted(op[t])

RoutedAll(t) ==
    [i \in 1..Len(Destinations(op[t])) |-> RoutedTo(t, Destinations(op[t])[i])]

----------------------------------------------------------------------------
(* C1: whenever one of the six public functions returns Ok(addr), addr lies *)
(* in the address range of that function's scope; an address outside it is  *)
(* never returned as a success.                                             *)
C1_OkIsInScope ==
    \A t \in Callers :
        Finished(t) /\ result[t].kind = "Ok" =>
            /\ Len(result[t].addrs) = 1
            /\ InScope(op[t], result[t].addrs[1])

C1_Witness ==
    \E t \in Callers :
        /\ Finished(t)
        /\ op[t] = "get_ipv4_private"
        /\ result[t] = Res("Ok", "", <<V4(172, 31, 255, 254)>>, "")
        /\ RoutedTo(t, "192.168.0.0") = V4(172, 32, 0, 1)

(* C2: a probe never succeeds with an address of the other family: every    *)
(* probe result kept and every Ok returned has the wanted family, and a     *)
(* local address of the other family ends the call with WrongIpVer naming   *)
(* the wanted family and carrying that address.                             *)
C2_FamilyIsKept ==
    \A t \in Callers :
        /\ \A i \in 1..Len(got[t]) : got[t][i].v = FamilyWanted(op[t])
        /\ Finished(t) /\ result[t].kind = "Ok" =>
              result[t].addrs[1].v = FamilyWanted(op[t])
        /\ Finished(t) /\ Last(log[t]).prim = "local_addr" /\ Last(log[t]).err = ""
              /\ RoutedTo(t, Last(log[t]).net).v # FamilyWanted(op[t]) =>
              result[t] = Res("WrongIpVer", FamilyLabel(op[t]),
                              <<RoutedTo(t, Last(log[t]).net)>>, "")

C2_Witness ==
    \E t \in Callers :
        /\ Finished(t)
        /\ op[t] = "get_ipv6_unique_local"
        /\ result[t] = Res("WrongIpVer", "IPv6", <<V4(192, 168, 1, 7)>>, "")

(* C3: in get_ipv4_private with all three probes successful, the result is  *)
(* the first private one of the 192.168.0.0, 172.16.0.0 and 10.0.0.0 probe  *)
(* results, in that order.                                                  *)
C3_PrivatePreference ==
    \A t \in Callers :
        Finished(t) /\ op[t] = "get_ipv4_private" /\ AllProbesSucceeded(t) =>
            LET a == RoutedTo(t, "10.0.0.0")
                b == RoutedTo(t, "172.16.0.0")
                c == RoutedTo(t, "192.168.0.0")
            IN  /\ Rfc1918(c) => result[t] = Res("Ok", "", <<c>>, "")
                /\ ~Rfc1918(c) /\ Rfc1918(b) => result[t] = Res("Ok", "", <<b>>, "")
                /\ ~Rfc1918(c) /\ ~Rfc1918(b) /\ Rfc1918(a) =>
                      result[t] = Res("Ok", "", <<a>>, "")
                /\ ~Rfc1918(c) /\ ~Rfc1918(b) /\ ~Rfc1918(a) => result[t].kind # "Ok"

C3_Witness ==
    \E t \in Callers :
        /\ Finished(t)
        /\ op[t] = "get_ipv4_private"
        /\ AllProbesSucceeded(t)
        /\ RoutedTo(t, "10.0.0.0") = V4(10, 1, 2, 3)
        /\ RoutedTo(t, "172.16.0.0") = V4(172, 16, 5, 4)
        /\ RoutedTo(t, "192.168.0.0") = V4(192, 168, 1, 7)
        /\ result[t] = Res("Ok", "", <<V4(192, 168, 1, 7)>>, "")

(* C4: when every probe of a call succeeds with an address of the wanted    *)
(* family and none of them is in scope, the call returns its own variant    *)
(* carrying exactly those addresses, for get_ipv4_private in the order of   *)
(* the 10.0.0.0, 172.16.0.0, 192.168.0.0 probes.                            *)
C4_ScopeErrorCarriesAddresses ==
    \A t \in Callers :
        Finished(t) /\ AllProbesSucceeded(t)
            /\ (\A i \in 1..Len(RoutedAll(t)) : ~InScope(op[t], RoutedAll(t)[i])) =>
            result[t] = Res(ScopeVariant(op[t]), "", RoutedAll(t), "")

C4_Witness ==
    \E t \in Callers :
        /\ Finished(t)
        /\ result[t] = Res("NoPrivate", "",
                           <<V4(11, 0, 0, 1), V4(172, 32, 0, 1), V4(192, 169, 0, 1)>>, "")

(* C5: an OS failure of socket creation, device binding, connect or the     *)
(* local-address query is returned as IoError wrapping that error; with an  *)
(* interface the OS does not know, the device binding fails and the call    *)
(* returns IoError, and never Ok, WrongIpVer or a scope error.              *)
C5_OsFailureIsIoError ==
    \A t \in Callers :
        Finished(t) =>
            /\ Last(log[t]).err \notin {"", "EMPTY"} =>
                  result[t] = Res("IoError", "", <<>>, Last(log[t]).err)
            /\ iface[t] \notin KnownIfaces =>
                  /\ result[t].kind \notin {"Ok", "WrongIpVer"} \cup ScopeVariants
                  /\ \A i \in 1..Len(log[t]) :
                        log[t][i].prim = "bind" =>
                            /\ log[t][i].err # ""
                            /\ i = Len(log[t])
                            /\ result[t] = Res("IoError", "", <<>>, log[t][i].err)

C5_Witness ==
    \E t \in Callers :
        /\ Finished(t)
        /\ iface[t] = "nodev0"
        /\ op[t] = "get_ipv6_unicast_global"
        /\ Last(log[t]).prim = "bind"
        /\ result[t] = Res("IoError", "", <<>>, "ENODEV")

C7_SocketsAreScoped ==
    /\ \A t \in Callers : pc[t] \in {"off", "idle", "socket", "done"} => sock[t] = 0
    /\ DOMAIN fdtab = {sock[t] : t \in Callers} \ {0}
    /\ Cardinality(DOMAIN fdtab) <=
          Cardinality({t \in Callers : pc[t] \in {"resolve", "bind", "connect", "local_addr"}})
    /\ (\A t \in Callers : pc[t] \in {"off", "idle", "done"}) => DOMAIN fdtab = {}

C7_Witness ==
    /\ Finished("c1") /\ op["c1"] = "get_ipv4_private" /\ Len(got["c1"]) = 3
    /\ Finished("c2") /\ result["c2"].kind = "WrongIpVer"
    /\ DOMAIN fdtab = {}

(* The result of a call that met the OS answers lg, run on its own *)
Alone(o, lg) ==
    LET conn == SelectSeq(lg, LAMBDA e : e.prim = "connect" /\ e.err = "")
        routed == [i \in 1..Len(conn) |-> conn[i].addr]
    IN  IF Last(lg).err = "EMPTY" THEN Panicked
        ELSE IF Last(lg).err # "" THEN Res("IoError", "", <<>>, Last(lg).err)
        ELSE IF Last(routed).v # FamilyWanted(o)
             THEN Res("WrongIpVer", FamilyLabel(o), <<Last(routed)>>, "")
        ELSE Validate(o, routed)

(* C8: calls share no state: under every interleaving a call's result is    *)
(* the one it has alone against the same OS answers, so two calls of one    *)
(* function on one interface that meet the same answers return the same     *)
(* result, and each of them issued its own probes.                          *)
C8_CallsAreIndependent ==
    /\ \A t \in Callers :
          Finished(t) =>
              /\ result[t] = Alone(op[t], log[t])
              /\ result[t].kind \in {"Ok"} \cup ScopeVariants =>
                    \A i \in 1..Len(Destinations(op[t])) :
                        ProbeCompleted(t, Destinations(op[t])[i])
    /\ \A t, u \in Callers :
          Finished(t) /\ Finished(u) /\ op[t] = op[u] /\ iface[t] = iface[u]
              /\ log[t] = log[u] => result[t] = result[u]

C8_Witness ==
    /\ Finished("c1") /\ Finished("c2")
    /\ op["c1"] = "get_ipv4_private" /\ op["c2"] = "get_ipv4_private"
    /\ log["c1"] = log["c2"]
    /\ result["c1"] = Res("Ok", "", <<V4(192, 168, 1, 7)>>, "")
    /\ result["c2"] = result["c1"]

(* C9: inside every probe the primitives run in the order socket, resolve,  *)
(* bind, connect, local_addr, each only after all earlier ones succeeded;   *)
(* connect and local_addr act on a socket already bound to the interface,   *)
(* and nothing else (no send) is invoked.                                   *)
C9_PrimitiveOrder ==
    /\ \A t \in Callers :
          op[t] # "" =>
          /\ \A i \in 1..Len(log[t]) :
                \E n \in 1..Len(Destinations(op[t])) : log[t][i].net = Destinations(op[t])[n]
          /\ \A n \in 1..Len(Destinations(op[t])) :
                LET p == ProbeLog(t, Destinations(op[t])[n]) IN
                /\ Len(p) <= 5
                /\ \A i \in 1..Len(p) :
                      /\ p[i].prim = Steps[i]
                      /\ i < Len(p) => p[i].err = ""
                      /\ p[i].prim \in {"connect", "local_addr"} => p[i].dev = iface[t]
    /\ \A fd \in DOMAIN fdtab : fdtab[fd].peer # NoAddr => fdtab[fd].dev # ""

C9_Witness ==
    \E t \in Callers :
        /\ Finished(t)
        /\ op[t] = "get_ipv6_unicast_link_local"
        /\ Len(log[t]) = 5
        /\ result[t].kind = "Ok"

(* C10: get_ipv4_private probes 10.0.0.0, 172.16.0.0, 192.168.0.0 in that   *)
(* order, each at most once, the next only after the previous succeeded;    *)
(* it returns Ok or NoPrivate only after all three succeeded, and a failed  *)
(* probe's error (IoError or WrongIpVer) is returned at once, no further    *)
(* probe being issued.                                                      *)
C10_PrivateProbesInOrder ==
    \A t \in Callers :
        op[t] = "get_ipv4_private" =>
            LET socks == SelectSeq(log[t], LAMBDA e : e.prim = "socket")
                nets == <<"10.0.0.0", "172.16.0.0", "192.168.0.0">>
            IN  /\ Len(socks) <= 3
                /\ \A i \in 1..Len(socks) : socks[i].net = nets[i]
                /\ \A i \in 1..(Len(socks) - 1) :
                      /\ ProbeCompleted(t, nets[i])
                      /\ RoutedTo(t, nets[i]).v = 4
                /\ ~Finished(t) => result[t] = NoResult
                /\ Finished(t) /\ result[t].kind \in {"Ok", "NoPrivate"} =>
                      AllProbesSucceeded(t)
                /\ Finished(t) /\ ~AllProbesSucceeded(t) /\ Last(log[t]).err # "EMPTY" =>
                      /\ result[t].kind \in {"IoError", "WrongIpVer"}
                      /\ Last(log[t]).net = nets[Len(socks)]
                      /\ result[t].kind = "IoError" => result[t].err = Last(log[t]).err
                      /\ result[t].kind = "WrongIpVer" =>
                            result[t].addrs = <<RoutedTo(t, nets[Len(socks)])>>

C10_Witness ==
    \E t \in Callers :
        /\ Finished(t)
        /\ op[t] = "get_ipv4_private"
        /\ ProbeCompleted(t, "10.0.0.0")
        /\ RoutedTo(t, "10.0.0.0") = V4(10, 1, 2, 3)
        /\ Len(ProbeLog(t, "172.16.0.0")) = 4
        /\ ProbeLog(t, "192.168.0.0") = <<>>
        /\ result[t] = Res("IoError", "", <<>>, "ENETUNREACH")

====
